---------------------------- MODULE Spec2Model ----------------------------
(***************************************************************************)
(* A model of core/cat/looking_glass/cheshire_cat.py: the CheshireCat      *)
(* object, its construction (__new__, __init__), its request pipeline      *)
(* (__call__), the recall of memories into the working memory, the         *)
(* synchronisation of the tools with the procedural collection             *)
(* (embed_tools), and the messages sent over the websocket                 *)
(* (send_ws_message).                                                      *)
(*                                                                         *)
(* __call__ is a plain function with no suspension point: a call runs to   *)
(* its end before another starts, so one call is in progress at a time.    *)
(* Its stages are steps of the model, and the hooks, the vector store, the *)
(* embedder and the agent are collaborators whose outcome (a value, or a   *)
(* failure) is chosen at the step that calls them.                         *)
(*                                                                         *)
(* Message texts are strings of which only the length and the places of    *)
(* the whitespace characters matter to the code: a text is the record      *)
(* [len, ws], ws the set of the 0-based indexes whose character is         *)
(* whitespace (str.isspace), every other character being a non-space one.  *)
(* Texts produced by the language model are sequences of characters.       *)
(*                                                                         *)
(* A recall config holds its vector by reference, as a dict holds a list:  *)
(* the three default configs hold the one list recall_query_embedding, and *)
(* a query reads the list as it is when the query is made.  Scores and     *)
(* thresholds are in hundredths.                                           *)
(***************************************************************************)
EXTENDS Integers, Sequences, FiniteSets, TLC

\* ------------------------------------------------------------ constants

\* MAX_TEXT_INPUT = 500
MAX_TEXT_INPUT == 500

\* the k of the three default recall configs
DEFAULT_K == 3

\* the threshold of the three default recall configs (0.7), in hundredths
DEFAULT_THRESHOLD == 70

\* get_args(MSG_TYPES)
MSG_TYPES == {"notification", "chat", "error", "chat_token"}

\* the default of user_message_json.get('user_id', 'user')
DefaultUserId == "user"

\* the marker of a message that carries no user_id key
NoUserId == "<absent>"

\* None
None == "<None>"

\* ------------------------------------------------------------ bounds

\* handle calls started in one behaviour
MaxCalls == 2

\* embed_tools runs in one behaviour
MaxSyncs == 2

\* send_ws_message calls in one behaviour
MaxPosts == 2

\* CheshireCat() calls in one behaviour
MaxConstructions == 2

\* ------------------------------------------------------------ message texts

\* len(text)
TextLen(text) == text.len

\* text[i].isspace()
IsSpaceAt(text, i) == i \in text.ws

\* text[:i]
TextPrefix(text, i) ==
    LET n == IF i < text.len THEN i ELSE text.len
    IN [len |-> n, ws |-> {w \in text.ws : w < n}]

\* a mutant of TextSuffix: the character at the cut is left out
TextSuffixAfter(text, i) ==
    LET n == IF i + 1 < text.len THEN i + 1 ELSE text.len
    IN [len |-> text.len - n, ws |-> {w - n : w \in {x \in text.ws : x >= n}}]

\* text[i:]
TextSuffix(text, i) ==
    LET n == IF i < text.len THEN i ELSE text.len
    IN [len |-> text.len - n, ws |-> {w - n : w \in {x \in text.ws : x >= n}}]

\* a + b on texts
TextConcat(a, b) ==
    [len |-> a.len + b.len, ws |-> a.ws \cup {w + a.len : w \in b.ws}]

\* line 505: the condition of the loop that looks for a whitespace
ScanContinues(text, index) == ~IsSpaceAt(text, index) /\ index > 0

\* a mutant of CutIndex: an index of 0 is kept
CutIndexKept(index) == index

\* lines 508-509: the index of the cut, given the index the loop ended with
CutIndex(index) == IF index <= 0 THEN MAX_TEXT_INPUT ELSE index

\* ------------------------------------------------------------ model texts

\* a short message
ShortText == [len |-> 5, ws |-> {2}]

\* a message longer than the threshold with a whitespace before it
LongText == [len |-> MAX_TEXT_INPUT + 3, ws |-> {MAX_TEXT_INPUT - 2}]

\* the message texts of the requests
Texts == {ShortText, LongText}

\* the places a whitespace may take in the texts of the segmentation runs
WsPlaces == {0, 1, 250, MAX_TEXT_INPUT - 1, MAX_TEXT_INPUT, MAX_TEXT_INPUT + 1}

\* the texts of the segmentation runs: around the threshold, every choice of
\* whitespace among WsPlaces
SegTexts ==
    {[len |-> n, ws |-> {w \in s : w < n}] :
        n \in {MAX_TEXT_INPUT, MAX_TEXT_INPUT + 1, MAX_TEXT_INPUT + 2},
        s \in SUBSET WsPlaces}


\* ------------------------------------------------------------ model output texts

\* the backquote character (U+0060), which a string of this language cannot hold
BQ == "backquote"

\* "Could not parse LLM output: " followed by a backquote, the text line 545 looks for
ParsePrefix ==
    << "C", "o", "u", "l", "d", " ", "n", "o", "t", " ", "p", "a", "r", "s", "e", " ",
       "L", "L", "M", " ", "o", "u", "t", "p", "u", "t", ":", " ", BQ >>

\* the string of one backquote
Backtick == << BQ >>

\* old in s, for strings
Contains(s, old) ==
    \E i \in 1..(Len(s) - Len(old) + 1) : SubSeq(s, i, i + Len(old) - 1) = old

\* s.replace(old, ""): the occurrences of old are taken from the left, without overlap
RECURSIVE RemoveAll(_, _)
RemoveAll(s, old) ==
    IF Len(s) < Len(old) \/ Len(old) = 0 THEN s
    ELSE IF SubSeq(s, 1, Len(old)) = old
         THEN RemoveAll(SubSeq(s, Len(old) + 1, Len(s)), old)
         ELSE << Head(s) >> \o RemoveAll(Tail(s), old)

\* the raw outputs of a model that did not follow the prompt
RawTexts == { << "h", "i" >>, << "a", BQ, "b" >> }

\* the message of langchain's parse failure for the raw output r
ParseFailure(r) == ParsePrefix \o r \o Backtick

\* the message of an agent failure that is no parse failure
OtherFailure == << "t", "i", "m", "e", "o", "u", "t" >>

\* the messages execute_agent may fail with
AgentFailures == {ParseFailure(r) : r \in RawTexts} \cup {OtherFailure}

\* the output of an agent run that succeeded
AgentAnswer == << "o", "k" >>

\* the intermediate steps of an agent run that succeeded
AgentSteps == << "tool" >>


\* ------------------------------------------------------------ state

\* the user ids of the clients
UserIds == {DefaultUserId, "alice"}

\* the messages a client may send: a text and a user_id, or no user_id key
Messages == [text : Texts, user_id : UserIds \cup {NoUserId}]

VARIABLES
    wm_registry,   \* working_memory_list: user id -> the place of its WorkingMemory in wm, 0 if none
    wm,            \* the WorkingMemory instances, in the order of their creation
    episodic,      \* memory.vectors.episodic: the points of the collection
    declarative,   \* memory.vectors.declarative: the points of the collection
    procedural,    \* memory.vectors.procedural: the points of the collection
    tools,         \* mad_hatter.tools
    next_id,       \* the next point id the vector store gives out
    clock,         \* time.time()
    call,          \* the __call__ in progress: its place, its locals and its outcome
    ncalls,        \* the handle calls started
    lookups,       \* the working-memory lookups made by __call__: user_id given, instance returned
    sync,          \* the last embed_tools run: what it read and the calls it made
    hooks,         \* mad_hatter.hooks: what the hook of each tier does to its recall config
    loop,          \* _loop: the tasks send_ws_message has scheduled, not run yet
    post,          \* the last send_ws_message call: its arguments and its outcome
    posted,        \* the send_ws_message calls that returned, in their order: arguments and message
    received,      \* the messages taken from the ws_messages queues, in the order of the gets
    boot           \* CheshireCat._instance and the __init__ calls: place, stages passed, callback

vars == << wm_registry, wm, episodic, declarative, procedural, tools, next_id, clock,
           call, ncalls, lookups, sync, hooks, loop, post, posted, received, boot >>

\* a key a dict does not hold yet
Unset == [unset |-> TRUE]

\* WorkingMemory(user_id): a new, empty working memory
EmptyWM(user_id) ==
    [user_id |-> user_id,
     history |-> << >>,
     user_message_json |-> Unset,
     recall_query |-> Unset,
     episodic_memories |-> << >>,
     declarative_memories |-> << >>,
     procedural_memories |-> << >>,
     ws_messages |-> << >>]

\* no outcome yet
NoOutcome == [kind |-> "none"]

\* return value
Return(value) == [kind |-> "return", output |-> value]

\* raise exc
Raise(exc) == [kind |-> "raise", exc |-> exc]

\* the failure of a hook
HookFailure(name) == [type |-> "HookFailure", hook |-> name]

\* the failure of a query on a collection of the vector store
QueryFailure(tier) == [type |-> "QueryFailure", tier |-> tier]

\* the failure of embedder.embed_query
EmbedFailure == [type |-> "EmbedFailure"]

\* the failure of execute_agent with a message
AgentFailure(message) == [type |-> "AgentFailure", message |-> message]

\* the TypeError of a comparison between an exception and an int
TypeError == [type |-> "TypeError"]

\* no failure
NoFailure == [type |-> "none"]

\* no call in progress
IdleCall ==
    [pc |-> "idle",
     user_id |-> None,
     given |-> None,
     wmid |-> 0,
     hist0 |-> << >>,
     episodic0 |-> << >>,
     declarative0 |-> << >>,
     read_text |-> Unset,
     recall_query |-> Unset,
     embed_calls |-> << >>,
     recall_query_embedding |-> Unset,
     defaults |-> Unset,
     queried |-> Unset,
     index |-> 0,
     failed |-> NoFailure,
     agent_invoked |-> FALSE,
     agent_error |-> << >>,
     cat_message |-> Unset,
     final_output |-> Unset,
     outcome |-> NoOutcome,
     stages |-> << >>]

\* a tool of a plugin
Tool(name, description) ==
    [name |-> name, description |-> description, docstring |-> "doc"]

\* a point of a collection
Point(id, page_content, metadata) ==
    [id |-> id, page_content |-> page_content, metadata |-> metadata]

\* no send_ws_message call yet
NoPost ==
    [count |-> 0, msg_type |-> None, content |-> None, working_memory |-> 0,
     outcome |-> NoOutcome]

\* the hooks of the three tiers as they are without a plugin: each returns the
\* config it is given
DefaultHooks == [episodic |-> "keep", declarative |-> "keep", procedural |-> "keep"]

\* lines 64-87: the stages of __init__, in the order of its statements
BootOrder ==
    << "before_cat_bootstrap", "load_natural_language", "load_memory",
       "embed_tools", "after_cat_bootstrap" >>

\* line 48: _instance = None; the instances are numbered from 1
NoInstance == 0

\* the process has started and no CheshireCat() call was made
NoBoot ==
    [instance |-> NoInstance, pc |-> "none", log |-> << >>, constructions |-> 0,
     returned |-> << >>, callback |-> None, runs0 |-> 0, signals |-> 0]

\* after the first CheshireCat() call, which returned instance 1
ReadyBoot ==
    [instance |-> 1, pc |-> "ready", log |-> BootOrder, constructions |-> 1,
     returned |-> << 1 >>, callback |-> "embed_tools", runs0 |-> 0, signals |-> 0]

\* no embed_tools run yet
NoSync ==
    [runs |-> 0, tools |-> << >>, prev_tools |-> << >>, before |-> << >>,
     adds |-> 0, deletes |-> 0, deleted |-> << >>]


\* ------------------------------------------------------------ vector store

\* the values of a sequence
Range(seq) == {seq[i] : i \in 1..Len(seq)}

\* collection.add_texts([text], [metadata]): one new point, with a fresh id
AddTexts(collection, id, text, metadata) ==
    Append(collection, Point(id, text, metadata))

\* vector_db.delete(collection_name, points_selector): the points of these ids go
DeletePoints(collection, ids) ==
    SelectSeq(collection, LAMBDA p : p.id \notin Range(ids))

\* ------------------------------------------------------------ embed_tools

\* [t.payload["page_content"] for t in embedded_tools]
PageContents(points) == [i \in 1..Len(points) |-> points[i].page_content]

\* [t.id for t in embedded_tools]
PointIds(points) == [i \in 1..Len(points) |-> points[i].id]

\* [t.description for t in self.mad_hatter.tools]
Descriptions(ts) == [i \in 1..Len(ts) |-> ts[i].description]

\* a mutant of NotEmbedded: every tool is taken as new
NotEmbeddedAlways(tool, embedded_tools_descriptions) == TRUE

\* line 267: tool.description not in embedded_tools_descriptions
NotEmbedded(tool, embedded_tools_descriptions) ==
    tool.description \notin Range(embedded_tools_descriptions)

\* lines 265-279: the loop over the tools, from tool i on; st is the collection,
\* the next point id, the clock and the add_texts calls made so far
RECURSIVE EmbedLoop(_, _, _, _)
EmbedLoop(ts, i, embedded_tools_descriptions, st) ==
    IF i > Len(ts) THEN st
    ELSE IF NotEmbedded(ts[i], embedded_tools_descriptions)
         THEN EmbedLoop(ts, i + 1, embedded_tools_descriptions,
                  [collection |-> AddTexts(st.collection, st.next_id, ts[i].description,
                                      [source |-> "tool", when |-> st.clock,
                                       name |-> ts[i].name, docstring |-> ts[i].docstring]),
                   next_id |-> st.next_id + 1,
                   clock |-> st.clock + 1,
                   adds |-> st.adds + 1])
         ELSE EmbedLoop(ts, i + 1, embedded_tools_descriptions, st)

\* a mutant of PointsToBeDeleted: nothing is marked
PointsToBeDeletedNone(embedded_tools, mad_hatter_tools_descriptions) == << >>

\* lines 285-290: the ids of the points whose description no tool has
PointsToBeDeleted(embedded_tools, mad_hatter_tools_descriptions) ==
    PointIds(SelectSeq(embedded_tools,
        LAMBDA p : p.page_content \notin Range(mad_hatter_tools_descriptions)))

\* a mutant of DeleteCalls: one delete call for each point
DeleteCallsEach(points_to_be_deleted) == Len(points_to_be_deleted)

\* lines 293-297: the delete calls of a run, one for the whole list if the list
\* is not empty
DeleteCalls(points_to_be_deleted) == IF Len(points_to_be_deleted) > 0 THEN 1 ELSE 0

\* embed_tools: the collection after the run, and the calls the run made
embed_tools(ts, collection, id, now) ==
    LET embedded_tools == collection
        added == EmbedLoop(ts, 1, PageContents(embedded_tools),
                     [collection |-> collection, next_id |-> id, clock |-> now, adds |-> 0])
        points_to_be_deleted == PointsToBeDeleted(embedded_tools, Descriptions(ts))
    IN [collection |-> IF Len(points_to_be_deleted) > 0
                       THEN DeletePoints(added.collection, points_to_be_deleted)
                       ELSE added.collection,
        next_id |-> added.next_id,
        clock |-> added.clock,
        adds |-> added.adds,
        deletes |-> DeleteCalls(points_to_be_deleted),
        deleted |-> points_to_be_deleted]

\* the state after an embed_tools run on the tools ts
RunEmbedTools(ts) ==
    LET r == embed_tools(ts, procedural, next_id, clock)
    IN /\ procedural' = r.collection
       /\ next_id' = r.next_id
       /\ clock' = r.clock
       /\ sync' = [runs |-> sync.runs + 1, tools |-> ts, prev_tools |-> sync.tools,
                   before |-> procedural, adds |-> r.adds, deletes |-> r.deletes,
                   deleted |-> r.deleted]

\* embed_tools, called by __init__ or again on the tools as they are
EmbedTools ==
    /\ sync.runs < MaxSyncs
    /\ RunEmbedTools(tools)
    /\ UNCHANGED << wm_registry, wm, episodic, declarative, tools, call, ncalls, lookups,
                    hooks, loop, post, posted, received, boot >>

\* the tools the plugins may define
ToolSet == {Tool(n, d) : n \in {"t1", "t2"}, d \in {"A", "B"}}

\* the lists mad_hatter.tools may be: no tool, one, or two different ones
ToolLists ==
    {<< >>} \cup {<< t >> : t \in ToolSet}
            \cup {p \in ToolSet \X ToolSet : p[1] # p[2]}

\* the mad hatter finishes a sync of the plugins: the tools are the new list, and
\* on_finish_plugins_sync_callback, which is embed_tools, runs
PluginsSync(ts) ==
    /\ sync.runs >= 1
    /\ sync.runs < MaxSyncs
    /\ ts # tools
    /\ tools' = ts
    /\ RunEmbedTools(ts)
    /\ UNCHANGED << wm_registry, wm, episodic, declarative, call, ncalls, lookups,
                    hooks, loop, post, posted, received, boot >>

\* the procedural collections an earlier process may have left: no description twice
PersistedCollections ==
    { << >>,
      << Point(1, "A", [source |-> "tool", when |-> 0, name |-> "t1", docstring |-> "doc"]) >>,
      << Point(1, "C", [source |-> "tool", when |-> 0, name |-> "t3", docstring |-> "doc"]) >>,
      << Point(1, "A", [source |-> "tool", when |-> 0, name |-> "t1", docstring |-> "doc"]),
         Point(2, "C", [source |-> "tool", when |-> 0, name |-> "t3", docstring |-> "doc"]) >>,
      << Point(1, "B", [source |-> "tool", when |-> 0, name |-> "t2", docstring |-> "doc"]),
         Point(2, "C", [source |-> "tool", when |-> 0, name |-> "t3", docstring |-> "doc"]) >>,
      << Point(1, "A", [source |-> "tool", when |-> 0, name |-> "t1", docstring |-> "doc"]),
         Point(2, "B", [source |-> "tool", when |-> 0, name |-> "t2", docstring |-> "doc"]),
         Point(3, "C", [source |-> "tool", when |-> 0, name |-> "t3", docstring |-> "doc"]) >> }


\* ------------------------------------------------------------ working memories

\* a mutant of ResolveUserId: every message is taken as the default user's
ResolveUserIdDefault(m) == DefaultUserId

\* line 478: user_message_json.get('user_id', 'user')
ResolveUserId(m) == IF m.user_id = NoUserId THEN DefaultUserId ELSE m.user_id

\* working_memory_list.get_working_memory(user_id): the instance of the user id,
\* made and registered if there is none; the registry and the instances after it
GetWorkingMemory(registry, instances, user_id) ==
    IF registry[user_id] = 0
    THEN [id |-> Len(instances) + 1,
          registry |-> [registry EXCEPT ![user_id] = Len(instances) + 1],
          instances |-> Append(instances, EmptyWM(user_id))]
    ELSE [id |-> registry[user_id], registry |-> registry, instances |-> instances]

\* working_memory.update_conversation_history(who, message): one more turn
UpdateConversationHistory(history, turn) == Append(history, turn)

\* ------------------------------------------------------------ recall

\* the three collections, in the order of memory.vectors.collections
Tiers == << "episodic", "declarative", "procedural" >>

\* getattr(self.memory.vectors, memory_type)
Collection(tier) ==
    CASE tier = "episodic" -> episodic
      [] tier = "declarative" -> declarative
      [] tier = "procedural" -> procedural

\* metadata: None
NoMetadata == [none |-> TRUE]

\* embedder.embed_query(text): the vector of a text, a new list each time; a
\* list may be changed in place afterwards
EmbedQuery(text) == [of |-> text, changed |-> FALSE]

\* the list line 327 binds to recall_query_embedding: the three default configs
\* hold this one list, not a copy each
RecallQueryEmbedding == [ref |-> "recall_query_embedding"]

\* a mutant of DefaultRecallConfig: no tier has a filter
DefaultRecallConfigUnfiltered(tier, recall_query_embedding, user_id) ==
    [embedding |-> recall_query_embedding,
     k |-> DEFAULT_K,
     threshold |-> DEFAULT_THRESHOLD,
     metadata |-> NoMetadata]

\* lines 335-354: the default recall config of a tier
DefaultRecallConfig(tier, recall_query_embedding, user_id) ==
    [embedding |-> recall_query_embedding,
     k |-> DEFAULT_K,
     threshold |-> DEFAULT_THRESHOLD,
     metadata |-> IF tier = "episodic" THEN [source |-> user_id] ELSE NoMetadata]

\* what the hook of a tier may do with the config it is given: return it as it
\* is, return it with another k, threshold, filter or vector, or change the
\* vector it holds in place
TierHooks == {"keep", "k", "threshold", "metadata", "embedding", "in_place"}

\* the query text cat_recall_query may return in place of the message text
QueryRewrite == [len |-> 3, ws |-> {}]

\* the k a hook may set
HookK == 1

\* the threshold a hook may set, in hundredths
HookThreshold == 40

\* the filter a hook may set
HookMetadata == [source |-> "alice"]

\* the vector a hook may set: a list of its own
HookEmbedding == [of |-> QueryRewrite, changed |-> TRUE]

\* lines 357-364: the config the hook of a tier returns
HookReturns(hook, config) ==
    CASE hook = "k" -> [config EXCEPT !.k = HookK]
      [] hook = "threshold" -> [config EXCEPT !.threshold = HookThreshold]
      [] hook = "metadata" -> [config EXCEPT !.metadata = HookMetadata]
      [] hook = "embedding" -> [config EXCEPT !.embedding = HookEmbedding]
      [] OTHER -> config

\* lines 357-364: a list after the hook of a tier was given a config that holds it
HookLeaves(hook, vector) ==
    IF hook = "in_place" THEN [vector EXCEPT !.changed = TRUE] ELSE vector

\* lines 357-364: the tiers of the three hooks, in the order of the calls
HookTiers == << "episodic", "declarative", "procedural" >>

\* lines 335-354: the three default configs, as they are before a hook has
\* seen them, in the order of recall_configs
DefaultRecallConfigs(user_id) ==
    [i \in 1..Len(HookTiers) |->
        DefaultRecallConfig(HookTiers[i], RecallQueryEmbedding, user_id)]

\* lines 335-364: recall_configs, where hks tells what the hook of each tier does
RecallConfigs(hks, user_id) ==
    [i \in 1..Len(HookTiers) |->
        HookReturns(hks[HookTiers[i]],
            DefaultRecallConfig(HookTiers[i], RecallQueryEmbedding, user_id))]

\* lines 327-364: the list recall_query_embedding when the three hooks have run
EmbeddingAfterHooks(hks, recall_query) ==
    HookLeaves(hks[HookTiers[3]],
        HookLeaves(hks[HookTiers[2]],
            HookLeaves(hks[HookTiers[1]], EmbedQuery(recall_query))))

\* line 373: **config, the config as the query gets it, with the list its
\* embedding is at that time
QueryConfig(config, recall_query_embedding) ==
    IF config.embedding = RecallQueryEmbedding
    THEN [config EXCEPT !.embedding = recall_query_embedding]
    ELSE config

\* lines 335-373: the configs the queries get, in the order of recall_configs
QueryConfigs(hks, recall_query, user_id) ==
    [i \in 1..Len(HookTiers) |->
        QueryConfig(RecallConfigs(hks, user_id)[i],
                    EmbeddingAfterHooks(hks, recall_query))]

\* the similarity of a vector and a point, in hundredths: a fixed function of
\* the two, which is the business of the embedder and of the store
Score(embedding, point) ==
    100 - 10 * ((7 * point.id + TextLen(embedding.of)
                    + (IF embedding.changed THEN 1 ELSE 0)) % 11)

\* a result of a query: a point and its score
Hit(point, score) == [point |-> point, score |-> score]

\* the first k values of a sequence
FirstK(seq, k) == SubSeq(seq, 1, IF Len(seq) < k THEN Len(seq) ELSE k)

\* a sequence without its i-th value
Without(seq, i) == SubSeq(seq, 1, i - 1) \o SubSeq(seq, i + 1, Len(seq))

\* the hits by descending score, those of one score in the order they had
RECURSIVE ByScore(_)
ByScore(hits) ==
    IF hits = << >> THEN << >>
    ELSE LET best == CHOOSE i \in 1..Len(hits) :
                        /\ \A j \in 1..Len(hits) : hits[j].score <= hits[i].score
                        /\ \A j \in 1..(i - 1) : hits[j].score < hits[i].score
         IN << hits[best] >> \o ByScore(Without(hits, best))

\* vector_memory.recall_memories_from_embedding(**config): the points of the
\* collection the metadata filter lets through and whose score is at least the
\* threshold, by descending score, at most k of them
RecallMemoriesFromEmbedding(collection, config) ==
    LET filtered == SelectSeq(collection,
                        LAMBDA p : \/ config.metadata = NoMetadata
                                   \/ p.metadata.source = config.metadata.source)
        hits == [i \in 1..Len(filtered) |->
                    Hit(filtered[i], Score(config.embedding, filtered[i]))]
    IN FirstK(ByScore(SelectSeq(hits, LAMBDA h : h.score >= config.threshold)),
              config.k)

\* the hooks of the recall, the embedding and the three queries, in the order in
\* which recall_relevant_memories_to_working_memory reaches them
RecallPoints ==
    << HookFailure("cat_recall_query"),
       EmbedFailure,
       HookFailure("before_cat_recalls_memories"),
       HookFailure("before_cat_recalls_episodic_memories"),
       HookFailure("before_cat_recalls_declarative_memories"),
       HookFailure("before_cat_recalls_procedural_memories"),
       QueryFailure("episodic"),
       QueryFailure("declarative"),
       QueryFailure("procedural"),
       HookFailure("after_cat_recalls_memories") >>

\* the place of a failure among RecallPoints; one past the end for no failure
RecallPlace(failure) ==
    IF failure = NoFailure THEN Len(RecallPoints) + 1
    ELSE CHOOSE i \in 1..Len(RecallPoints) : RecallPoints[i] = failure

\* a mutant of MemoryKey: every result goes to the episodic slot
MemoryKeyEpisodic(memory_type) == "episodic_memories"

\* line 369: the key of the slot of a collection
MemoryKey(memory_type) ==
    CASE memory_type = "episodic" -> "episodic_memories"
      [] memory_type = "declarative" -> "declarative_memories"
      [] memory_type = "procedural" -> "procedural_memories"

\* a mutant of EmbedCalls: the query is embedded again for every tier
EmbedCallsPerTier(recall_query, failure) ==
    IF RecallPlace(failure) >= RecallPlace(EmbedFailure)
    THEN [i \in 1..Len(Tiers) |-> recall_query] ELSE << >>

\* line 327: the texts embedder.embed_query is called with by a recall that
\* went as far as the point that raised failure
EmbedCalls(recall_query, failure) ==
    IF RecallPlace(failure) >= RecallPlace(EmbedFailure)
    THEN << recall_query >> ELSE << >>

\* the recall went past the point named
WentPast(failure, point) == RecallPlace(failure) > RecallPlace(point)

\* lines 319-354: the locals of a recall that went as far as the point that
\* raised failure: what cat_recall_query returned, the calls of embed_query,
\* the list bound to recall_query_embedding and the default configs
RecallLocals(c, user_id, recall_query, failure) ==
    [c EXCEPT
        !.recall_query =
            IF WentPast(failure, HookFailure("cat_recall_query"))
            THEN recall_query ELSE @,
        !.embed_calls = EmbedCalls(recall_query, failure),
        !.recall_query_embedding =
            IF WentPast(failure, EmbedFailure) THEN EmbedQuery(recall_query) ELSE @,
        !.defaults =
            IF WentPast(failure, HookFailure("before_cat_recalls_memories"))
            THEN DefaultRecallConfigs(user_id) ELSE @]

\* the recall went past its hooks, to the queries
QueriesReached(failure) ==
    RecallPlace(failure) > RecallPlace(HookFailure("before_cat_recalls_procedural_memories"))

\* lines 366-375: the working memory w after the loop over the collections, from
\* the i-th on, as far as the point that raised failure
RECURSIVE QueryLoop(_, _, _, _)
QueryLoop(w, i, configs, failure) ==
    IF i > Len(Tiers) \/ RecallPlace(failure) <= RecallPlace(QueryFailure(Tiers[i]))
    THEN w
    ELSE QueryLoop([w EXCEPT ![MemoryKey(Tiers[i])] =
                       RecallMemoriesFromEmbedding(Collection(Tiers[i]), configs[i])],
                   i + 1, configs, failure)

\* lines 319-378: the working memory w after the recall for user_id, where the
\* cat_recall_query hook returned recall_query and the recall went as far as the
\* point that raised failure (NoFailure: to its end)
RecallInto(w, user_id, recall_query, failure) ==
    QueryLoop([w EXCEPT !.recall_query =
                  IF RecallPlace(failure) > RecallPlace(EmbedFailure)
                  THEN recall_query ELSE @],
              1, QueryConfigs(hooks, recall_query, user_id), failure)

\* the default limit of traceback.print_exc
NoLimit == [type |-> "NoneType"]

\* traceback.print_exc(limit): StackSummary.extract compares a limit that is not
\* None with 0, which raises TypeError for a limit that is no number
PrintExcRaises(limit) == limit.type \notin {"NoneType", "int"}

\* lines 528-532: the error output of a failed recall
VectorMemoryErrorOutput ==
    [type |-> "error",
     name |-> "VectorMemoryError",
     description |-> "You probably changed Embedder and old vector memory is not compatible. Please delete core/long_term_memory folder."]

\* lines 519-532: the handler of a failure e of the recall; traceback.print_exc is
\* given e as its limit
RecallHandler(e) ==
    IF PrintExcRaises(e) THEN Raise(TypeError) ELSE Return(VectorMemoryErrorOutput)


\* ------------------------------------------------------------ __call__

\* the working memory of the call in progress: session_cat.working_memory
CallWM == wm[call.wmid]

\* the text of the message in a working memory
MessageText(w) == w.user_message_json.text

\* the call c moves to stage pc, having passed the stage named
Advance(c, passed, pc) == [c EXCEPT !.pc = pc, !.stages = Append(@, passed)]

\* a mutant of Finish: the call goes back to its recall
FinishAndRetry(c, passed, outcome) ==
    [c EXCEPT !.pc = "recall", !.stages = Append(@, passed), !.outcome = outcome]

\* the call c ends in the stage named, with an outcome
Finish(c, passed, outcome) ==
    [c EXCEPT !.pc = "done", !.stages = Append(@, passed), !.outcome = outcome]

\* lines 475-491: a message arrives; its working memory is looked up, or made,
\* and holds the message
Ingress(m) ==
    LET user_id == ResolveUserId(m)
        got == GetWorkingMemory(wm_registry, wm, user_id)
    IN /\ ncalls < MaxCalls
       /\ boot.pc = "ready"
       /\ call.pc = "idle"
       /\ ncalls' = ncalls + 1
       /\ wm_registry' = got.registry
       /\ wm' = [got.instances EXCEPT
                    ![got.id].user_message_json = [text |-> m.text, user_id |-> user_id]]
       /\ lookups' = lookups \cup {[given |-> m.user_id, id |-> got.id]}
       /\ call' = [IdleCall EXCEPT !.pc = "read", !.user_id = user_id,
                                    !.given = m.user_id, !.wmid = got.id,
                                    !.hist0 = got.instances[got.id].history,
                                    !.episodic0 = episodic, !.declarative0 = declarative,
                                    !.stages = << "ingress" >>]
       /\ UNCHANGED << episodic, declarative, procedural, tools, next_id, clock, sync,
                    hooks, loop, post, posted, received, boot >>

\* lines 493-498: the before_cat_reads_message hook returns the message, with
\* its text or another, or raises
ReadHook ==
    /\ call.pc = "read"
    /\ \/ \E text \in Texts :
             /\ wm' = [wm EXCEPT ![call.wmid].user_message_json.text = text]
             /\ call' = Advance([call EXCEPT !.read_text = text], "read", "segment")
       \/ /\ call' = Finish([call EXCEPT !.failed = HookFailure("before_cat_reads_message")],
                            "read", Raise(HookFailure("before_cat_reads_message")))
          /\ UNCHANGED wm
    /\ UNCHANGED << wm_registry, episodic, declarative, procedural, tools, next_id, clock,
                    ncalls, lookups, sync,
                    hooks, loop, post, posted, received, boot >>

\* lines 502-504: a text longer than MAX_TEXT_INPUT is to be cut, and the
\* search for the place starts at MAX_TEXT_INPUT; another text is left as it is
Segment ==
    /\ call.pc = "segment"
    /\ call' = IF TextLen(MessageText(CallWM)) > MAX_TEXT_INPUT
               THEN [call EXCEPT !.pc = "scan", !.index = MAX_TEXT_INPUT]
               ELSE Advance(call, "segment", "recall")
    /\ UNCHANGED << wm_registry, wm, episodic, declarative, procedural, tools, next_id,
                    clock, ncalls, lookups, sync,
                    hooks, loop, post, posted, received, boot >>

\* lines 505-507: one round of the loop, a step back in the text
Scan ==
    /\ call.pc = "scan"
    /\ ScanContinues(MessageText(CallWM), call.index)
    /\ call' = [call EXCEPT !.index = @ - 1]
    /\ UNCHANGED << wm_registry, wm, episodic, declarative, procedural, tools, next_id,
                    clock, ncalls, lookups, sync,
                    hooks, loop, post, posted, received, boot >>

\* lines 508-512: the loop is over and the text is cut; what follows the cut
\* goes to the rabbit hole, which stores it in the declarative memory
Cut ==
    /\ call.pc = "scan"
    /\ ~ScanContinues(MessageText(CallWM), call.index)
    /\ LET text == MessageText(CallWM)
           index == CutIndex(call.index)
           to_declarative_memory == TextSuffix(text, index)
       IN /\ wm' = [wm EXCEPT ![call.wmid].user_message_json.text = TextPrefix(text, index)]
          /\ declarative' = AddTexts(declarative, next_id, to_declarative_memory,
                                [source |-> "", when |-> clock,
                                 content_type |-> "text/plain"])
          /\ call' = Advance([call EXCEPT !.index = index], "segment", "recall")
    /\ next_id' = next_id + 1
    /\ clock' = clock + 1
    /\ UNCHANGED << wm_registry, episodic, procedural, tools, ncalls, lookups, sync,
                    hooks, loop, post, posted, received, boot >>

\* lines 515-532: the recall, where the cat_recall_query hook returns the text
\* of the message or another query; a failure of any of its points is caught by
\* the handler of line 519
Recall ==
    /\ call.pc = "recall"
    /\ \E recall_query \in {MessageText(CallWM), QueryRewrite} :
       \E failure \in Range(RecallPoints) \cup {NoFailure} :
          /\ wm' = [wm EXCEPT ![call.wmid] =
                       RecallInto(CallWM, call.user_id, recall_query, failure)]
          /\ LET c == [RecallLocals(call, call.user_id, recall_query, failure)
                          EXCEPT !.queried =
                               IF QueriesReached(failure)
                               THEN QueryConfigs(hooks, recall_query, call.user_id)
                               ELSE @]
             IN call' = IF failure = NoFailure
                        THEN Advance(c, "recall", "agent")
                        ELSE Finish([c EXCEPT !.failed = failure], "recall",
                                    RecallHandler(failure))
    /\ UNCHANGED << wm_registry, episodic, declarative, procedural, tools, next_id, clock,
                    ncalls, lookups, sync,
                    hooks, loop, post, posted, received, boot >>

\* a mutant of IsParseFailure: every failure of the agent is taken as one
IsParseFailureAlways(error_description) == TRUE

\* line 545: the failure is one of the output parser
IsParseFailure(error_description) == Contains(error_description, ParsePrefix)

\* line 548: the output of the model, taken from the message of the failure
UnparsableLlmOutput(error_description) ==
    RemoveAll(RemoveAll(error_description, ParsePrefix), Backtick)

\* lines 534-553: the agent replies, or fails; a parse failure is recovered
Agent ==
    /\ call.pc = "agent"
    /\ LET c == [call EXCEPT !.agent_invoked = TRUE]
       IN \/ call' = Advance([c EXCEPT !.cat_message =
                                  [input |-> MessageText(CallWM),
                                   intermediate_steps |-> AgentSteps,
                                   output |-> AgentAnswer]],
                             "agent", "persist")
          \/ \E error_description \in AgentFailures :
                call' = IF ~IsParseFailure(error_description)
                        THEN Finish([c EXCEPT !.agent_error = error_description], "agent",
                                    Raise(AgentFailure(error_description)))
                        ELSE Advance([c EXCEPT !.agent_error = error_description,
                                               !.cat_message =
                                         [input |-> MessageText(CallWM),
                                          intermediate_steps |-> << >>,
                                          output |-> UnparsableLlmOutput(error_description)]],
                                     "agent", "persist")
    /\ UNCHANGED << wm_registry, wm, episodic, declarative, procedural, tools, next_id,
                    clock, ncalls, lookups, sync,
                    hooks, loop, post, posted, received, boot >>

\* a mutant of EpisodicMetadata: the entry is tagged with the default user
EpisodicMetadataAnonymous(user_id, now) == [source |-> DefaultUserId, when |-> now]

\* line 565: the metadata of the episodic entry of a message
EpisodicMetadata(user_id, now) == [source |-> user_id, when |-> now]

\* lines 558-566: the text of the message goes to the episodic memory
Persist ==
    /\ call.pc = "persist"
    /\ episodic' = AddTexts(episodic, next_id, MessageText(CallWM),
                       EpisodicMetadata(call.user_id, clock))
    /\ next_id' = next_id + 1
    /\ clock' = clock + 1
    /\ call' = Advance(call, "persist", "send")
    /\ UNCHANGED << wm_registry, wm, declarative, procedural, tools, ncalls, lookups, sync,
                    hooks, loop, post, posted, received, boot >>

\* lines 568-587: the output
FinalOutput(c, w) ==
    [type |-> "chat",
     user_id |-> c.user_id,
     content |-> c.cat_message.output,
     why |-> [input |-> c.cat_message.input,
              intermediate_steps |-> c.cat_message.intermediate_steps,
              memory |-> [episodic |-> w.episodic_memories,
                          declarative |-> w.declarative_memories,
                          procedural |-> w.procedural_memories]]]

\* lines 568-589: the output is built and the before_cat_sends_message hook
\* returns it, or raises
Send ==
    /\ call.pc = "send"
    /\ LET c == [call EXCEPT !.stages = Append(@, "output")]
       IN \/ call' = Advance([c EXCEPT !.final_output = FinalOutput(call, CallWM)],
                             "send", "history")
          \/ call' = Finish([c EXCEPT !.failed = HookFailure("before_cat_sends_message")],
                            "send", Raise(HookFailure("before_cat_sends_message")))
    /\ UNCHANGED << wm_registry, wm, episodic, declarative, procedural, tools, next_id,
                    clock, ncalls, lookups, sync,
                    hooks, loop, post, posted, received, boot >>

\* a mutant of HistoryAfter: the AI turn goes before the Human turn
HistoryAfterReversed(history, user_message, final_output) ==
    UpdateConversationHistory(
        UpdateConversationHistory(history,
            [who |-> "AI", message |-> final_output.content, why |-> final_output.why]),
        [who |-> "Human", message |-> user_message])

\* lines 591-593: the history after the two turns of the exchange
HistoryAfter(history, user_message, final_output) ==
    UpdateConversationHistory(
        UpdateConversationHistory(history, [who |-> "Human", message |-> user_message]),
        [who |-> "AI", message |-> final_output.content, why |-> final_output.why])

\* a mutant of History: the turns go to self.working_memory, the working memory
\* of the default user, not to that of the session
HistoryOfDefaultUser ==
    /\ call.pc = "history"
    /\ wm' = [wm EXCEPT ![wm_registry[DefaultUserId]].history =
                 HistoryAfter(@, MessageText(CallWM), call.final_output)]
    /\ call' = Finish([call EXCEPT !.stages = Append(@, "history")], "return",
                       Return(call.final_output))
    /\ UNCHANGED << wm_registry, episodic, declarative, procedural, tools, next_id, clock,
                    ncalls, lookups, sync, hooks, loop, post, posted, received, boot >>

\* lines 591-595: the conversation history takes the two turns and the output
\* is returned
History ==
    /\ call.pc = "history"
    /\ wm' = [wm EXCEPT ![call.wmid].history =
                 HistoryAfter(CallWM.history, MessageText(CallWM), call.final_output)]
    /\ call' = Finish([call EXCEPT !.stages = Append(@, "history")], "return",
                       Return(call.final_output))
    /\ UNCHANGED << wm_registry, episodic, declarative, procedural, tools, next_id, clock,
                    ncalls, lookups, sync,
                    hooks, loop, post, posted, received, boot >>

\* the call is over: its caller has the output, or the failure
Exit ==
    /\ call.pc = "done"
    /\ call' = IdleCall
    /\ UNCHANGED << wm_registry, wm, episodic, declarative, procedural, tools, next_id,
                    clock, ncalls, lookups, sync,
                    hooks, loop, post, posted, received, boot >>

\* ------------------------------------------------------------ send_ws_message

\* the kinds a caller may pass: those of MSG_TYPES, and one that is none of them
MsgTypes == MSG_TYPES \cup {"warning"}

\* the contents a caller may pass
Contents == {"c1", "c2"}

\* the ValueError of line 431
ValueError(msg_type) == [type |-> "ValueError", msg_type |-> msg_type]

\* a mutant of ValidMsgType: every kind is taken
ValidMsgTypeAny(msg_type) == TRUE

\* line 430: msg_type in options
ValidMsgType(msg_type) == msg_type \in MSG_TYPES

\* lines 433-451: the message that goes to the queue
WsMessage(content, msg_type) ==
    IF msg_type = "error"
    THEN [type |-> msg_type, name |-> "GenericError", description |-> content]
    ELSE [type |-> msg_type, content |-> content]

\* lines 434-451: ws_messages.put(message) on the working memory at place wmid
\* of wm, the coroutine create_task schedules
PutTask(wmid, message) == [wmid |-> wmid, message |-> message]

\* a mutant of Schedule: the new task runs before those waiting
ScheduleFirst(tasks, task) == << task >> \o tasks

\* lines 434 and 443: _loop.create_task(coroutine); the loop runs its tasks in
\* the order they were given to it
Schedule(tasks, task) == Append(tasks, task)

\* send_ws_message(content, msg_type, working_memory), where working_memory is
\* the place of an instance in wm, or 0 for None
SendWsMessage(content, msg_type, working_memory) ==
    LET got == GetWorkingMemory(wm_registry, wm, DefaultUserId)
        target == IF working_memory = 0 THEN got.id ELSE working_memory
    IN /\ post.count < MaxPosts
       /\ wm_registry' = IF working_memory = 0 THEN got.registry ELSE wm_registry
       /\ wm' = IF working_memory = 0 THEN got.instances ELSE wm
       /\ IF ~ValidMsgType(msg_type)
          THEN /\ loop' = loop
               /\ posted' = posted
               /\ post' = [count |-> post.count + 1, msg_type |-> msg_type,
                           content |-> content, working_memory |-> working_memory,
                           outcome |-> Raise(ValueError(msg_type))]
          ELSE /\ loop' = Schedule(loop, PutTask(target, WsMessage(content, msg_type)))
               /\ posted' = Append(posted, [working_memory |-> working_memory,
                                            message |-> WsMessage(content, msg_type)])
               /\ post' = [count |-> post.count + 1, msg_type |-> msg_type,
                           content |-> content, working_memory |-> working_memory,
                           outcome |-> Return(None)]
       /\ UNCHANGED << episodic, declarative, procedural, tools, next_id, clock, call,
                       ncalls, lookups, sync, hooks, received, boot >>

\* the event loop runs the task it was given first: the message is put on the
\* queue of its working memory
RunTask ==
    /\ loop # << >>
    /\ wm' = [wm EXCEPT ![Head(loop).wmid].ws_messages = Append(@, Head(loop).message)]
    /\ loop' = Tail(loop)
    /\ UNCHANGED << wm_registry, episodic, declarative, procedural, tools, next_id, clock,
                    call, ncalls, lookups, sync, hooks, post, posted, received, boot >>

\* the consumer of the queue of the working memory at place wmid of wm takes
\* the message at its head: await ws_messages.get()
GetMessage(wmid) ==
    /\ wm[wmid].ws_messages # << >>
    /\ wm' = [wm EXCEPT ![wmid].ws_messages = Tail(@)]
    /\ received' = Append(received, [wmid |-> wmid,
                                     message |-> Head(wm[wmid].ws_messages)])
    /\ UNCHANGED << wm_registry, episodic, declarative, procedural, tools, next_id, clock,
                    call, ncalls, lookups, sync, hooks, loop, post, posted, boot >>

\* ------------------------------------------------------------ __new__ and __init__

\* lines 51-54: cls._instance after __new__, where fresh is the object
\* super().__new__ would make
NewInstance(_instance, fresh) == IF _instance = NoInstance THEN fresh ELSE _instance

\* the __init__ in progress has passed one more stage
Passed(b, stage, pc) == [b EXCEPT !.pc = pc, !.log = Append(@, stage)]

\* CheshireCat(): __new__ gives the instance, and its __init__ begins
Construct ==
    /\ boot.pc \in {"none", "ready"}
    /\ call.pc = "idle"
    /\ boot.constructions < MaxConstructions
    /\ sync.runs < MaxSyncs
    /\ boot' = [boot EXCEPT
                   !.instance = NewInstance(@, boot.constructions + 1),
                   !.pc = "mad_hatter",
                   !.log = << >>,
                   !.constructions = @ + 1,
                   !.runs0 = sync.runs,
                   !.signals = 0]
    /\ UNCHANGED << wm_registry, wm, episodic, declarative, procedural, tools, next_id,
                    clock, call, ncalls, lookups, sync, hooks, loop, post, posted,
                    received >>

\* lines 64-67: a new MadHatter, which finds the tools ts of the plugins and has
\* no callback yet, and the before_cat_bootstrap hook
LoadPlugins(ts) ==
    /\ boot.pc = "mad_hatter"
    /\ tools' = ts
    /\ boot' = [Passed(boot, "before_cat_bootstrap", "load_natural_language")
                   EXCEPT !.callback = None]
    /\ UNCHANGED << wm_registry, wm, episodic, declarative, procedural, next_id,
                    clock, call, ncalls, lookups, sync, hooks, loop, post, posted,
                    received >>

\* line 70: the language model and the embedder
LoadNaturalLanguage ==
    /\ boot.pc = "load_natural_language"
    /\ boot' = Passed(boot, "load_natural_language", "load_memory")
    /\ UNCHANGED << wm_registry, wm, episodic, declarative, procedural, tools, next_id,
                    clock, call, ncalls, lookups, sync, hooks, loop, post, posted,
                    received >>

\* a new WorkingMemoryList: no user has a working memory
NewWorkingMemoryList == [u \in UserIds |-> 0]

\* lines 73, 237-247: load_memory; the collections are those the store holds, the
\* list of the working memories is a new one, with a new instance for the
\* default user
LoadMemory ==
    LET got == GetWorkingMemory(NewWorkingMemoryList, wm, DefaultUserId)
    IN /\ boot.pc = "load_memory"
       /\ wm_registry' = got.registry
       /\ wm' = got.instances
       /\ boot' = Passed(boot, "load_memory", "embed_tools")
       /\ UNCHANGED << episodic, declarative, procedural, tools, next_id, clock, call,
                       ncalls, lookups, sync, hooks, loop, post, posted, received >>

\* a mutant of BootEmbedTools: the callback is set and embed_tools is not called
BootEmbedToolsLater ==
    /\ boot.pc = "embed_tools"
    /\ boot' = [Passed(boot, "embed_tools", "after_cat_bootstrap")
                   EXCEPT !.callback = "embed_tools"]
    /\ UNCHANGED << wm_registry, wm, episodic, declarative, procedural, tools, next_id,
                    clock, call, ncalls, lookups, sync, hooks, loop, post, posted,
                    received >>

\* lines 77-78: embed_tools becomes the callback of the mad hatter, and runs
BootEmbedTools ==
    /\ boot.pc = "embed_tools"
    /\ RunEmbedTools(tools)
    /\ boot' = [Passed(boot, "embed_tools", "after_cat_bootstrap")
                   EXCEPT !.callback = "embed_tools"]
    /\ UNCHANGED << wm_registry, wm, episodic, declarative, tools, call, ncalls, lookups,
                    hooks, loop, post, posted, received >>

\* lines 81-93: the agent manager, the rabbit hole, the after_cat_bootstrap hook;
\* __init__ returns and the caller has the instance
FinishBootstrap ==
    /\ boot.pc = "after_cat_bootstrap"
    /\ boot' = [Passed(boot, "after_cat_bootstrap", "ready")
                   EXCEPT !.returned = Append(@, boot.instance)]
    /\ UNCHANGED << wm_registry, wm, episodic, declarative, procedural, tools, next_id,
                    clock, call, ncalls, lookups, sync, hooks, loop, post, posted,
                    received >>

\* the mad hatter finishes a sync of the plugins, whose tools are now ts, and
\* calls on_finish_plugins_sync_callback
PluginsSyncFinished(ts) ==
    /\ boot.pc \in {"after_cat_bootstrap", "ready"}
    /\ sync.runs < MaxSyncs
    /\ tools' = ts
    /\ boot' = [boot EXCEPT !.signals = @ + 1]
    /\ IF boot.callback = "embed_tools"
       THEN RunEmbedTools(ts)
       ELSE UNCHANGED << procedural, next_id, clock, sync >>
    /\ UNCHANGED << wm_registry, wm, episodic, declarative, call, ncalls, lookups,
                    hooks, loop, post, posted, received >>

\* ------------------------------------------------------------ specifications

\* the tool mad_hatter.tools holds while messages are handled
ChatTool == Tool("t1", "A")

\* after __init__: the default user's working memory exists, the memories are
\* empty, the tools are embedded
Init ==
    /\ wm_registry = [u \in UserIds |-> IF u = DefaultUserId THEN 1 ELSE 0]
    /\ wm = << EmptyWM(DefaultUserId) >>
    /\ episodic = << >>
    /\ declarative = << >>
    /\ tools = << ChatTool >>
    /\ procedural = embed_tools(tools, << >>, 1, 0).collection
    /\ next_id = 2
    /\ clock = 1
    /\ call = IdleCall
    /\ ncalls = 0
    /\ lookups = {}
    /\ sync = [NoSync EXCEPT !.runs = 1, !.tools = tools, !.adds = 1]
    /\ hooks = DefaultHooks
    /\ loop = << >>
    /\ post = NoPost
    /\ posted = << >>
    /\ received = << >>
    /\ boot = ReadyBoot

\* a step of a handle call
Next ==
    \/ \E m \in Messages : Ingress(m)
    \/ ReadHook
    \/ Segment
    \/ Scan
    \/ Cut
    \/ Recall
    \/ Agent
    \/ Persist
    \/ Send
    \/ History
    \/ Exit

\* the handling of messages
Spec == Init /\ [][Next]_vars

\* after load_memory, before the embed_tools of __init__: the procedural
\* collection is what an earlier process left, the tools are those of the plugins
InitTools ==
    /\ wm_registry = [u \in UserIds |-> IF u = DefaultUserId THEN 1 ELSE 0]
    /\ wm = << EmptyWM(DefaultUserId) >>
    /\ episodic = << >>
    /\ declarative = << >>
    /\ tools \in ToolLists
    /\ procedural \in PersistedCollections
    /\ next_id = 4
    /\ clock = 1
    /\ call = IdleCall
    /\ ncalls = 0
    /\ lookups = {}
    /\ sync = NoSync
    /\ hooks = DefaultHooks
    /\ loop = << >>
    /\ post = NoPost
    /\ posted = << >>
    /\ received = << >>
    /\ boot = [ReadyBoot EXCEPT !.pc = "embed_tools", !.returned = << >>,
                                !.callback = None,
                                !.log = SubSeq(BootOrder, 1, 3)]

\* a run of embed_tools: that of __init__, or one the mad hatter calls for
NextTools ==
    \/ EmbedTools
    \/ \E ts \in ToolLists : PluginsSync(ts)

\* the synchronisation of the tools
SpecTools == InitTools /\ [][NextTools]_vars

\* a first message, of the text given, has passed the before_cat_reads_message hook
InitSeg ==
    /\ wm_registry = [u \in UserIds |-> IF u = DefaultUserId THEN 1 ELSE 0]
    /\ \E text \in SegTexts :
          /\ wm = << [EmptyWM(DefaultUserId) EXCEPT
                        !.user_message_json = [text |-> text, user_id |-> DefaultUserId]] >>
          /\ call = [IdleCall EXCEPT !.pc = "segment", !.user_id = DefaultUserId,
                                     !.given = NoUserId, !.wmid = 1, !.read_text = text,
                                     !.stages = << "ingress", "read" >>]
    /\ episodic = << >>
    /\ declarative = << >>
    /\ tools = << ChatTool >>
    /\ procedural = embed_tools(tools, << >>, 1, 0).collection
    /\ next_id = 2
    /\ clock = 1
    /\ ncalls = 1
    /\ lookups = {[given |-> NoUserId, id |-> 1]}
    /\ sync = [NoSync EXCEPT !.runs = 1, !.tools = tools, !.adds = 1]
    /\ hooks = DefaultHooks
    /\ loop = << >>
    /\ post = NoPost
    /\ posted = << >>
    /\ received = << >>
    /\ boot = ReadyBoot

\* a step of the segmentation of the message
NextSeg ==
    \/ Segment
    \/ Scan
    \/ Cut

\* the segmentation of texts around the threshold
SpecSeg == InitSeg /\ [][NextSeg]_vars

\* after __init__ and a first message, of a user other than the default one,
\* that the before_cat_reads_message hook refused
InitWs ==
    /\ wm_registry = [u \in UserIds |-> IF u = DefaultUserId THEN 1 ELSE 2]
    /\ wm = << EmptyWM(DefaultUserId),
               [EmptyWM("alice") EXCEPT
                   !.user_message_json = [text |-> ShortText, user_id |-> "alice"]] >>
    /\ episodic = << >>
    /\ declarative = << >>
    /\ tools = << ChatTool >>
    /\ procedural = embed_tools(tools, << >>, 1, 0).collection
    /\ next_id = 2
    /\ clock = 1
    /\ call = IdleCall
    /\ ncalls = 1
    /\ lookups = {[given |-> "alice", id |-> 2]}
    /\ sync = [NoSync EXCEPT !.runs = 1, !.tools = tools, !.adds = 1]
    /\ hooks = DefaultHooks
    /\ loop = << >>
    /\ post = NoPost
    /\ posted = << >>
    /\ received = << >>
    /\ boot = ReadyBoot

\* a send_ws_message call, a turn of the event loop, or a get of a consumer
NextWs ==
    \/ \E content \in Contents, msg_type \in MsgTypes, working_memory \in 0..2 :
          SendWsMessage(content, msg_type, working_memory)
    \/ RunTask
    \/ \E wmid \in DOMAIN wm : GetMessage(wmid)

\* the messages sent over the websocket
SpecWs == InitWs /\ [][NextWs]_vars

\* a process starts on the procedural collection an earlier one left
InitBoot ==
    /\ wm_registry = NewWorkingMemoryList
    /\ wm = << >>
    /\ episodic = << >>
    /\ declarative = << >>
    /\ tools = << >>
    /\ procedural \in PersistedCollections
    /\ next_id = 4
    /\ clock = 1
    /\ call = IdleCall
    /\ ncalls = 0
    /\ lookups = {}
    /\ sync = NoSync
    /\ hooks = DefaultHooks
    /\ loop = << >>
    /\ post = NoPost
    /\ posted = << >>
    /\ received = << >>
    /\ boot = NoBoot

\* a CheshireCat() call, a stage of its __init__, or a sync of the plugins
NextBoot ==
    \/ Construct
    \/ \E ts \in ToolLists : LoadPlugins(ts)
    \/ LoadNaturalLanguage
    \/ LoadMemory
    \/ BootEmbedTools
    \/ FinishBootstrap
    \/ \E ts \in ToolLists : PluginsSyncFinished(ts)

\* the bootstrap of the cat and the syncs of its tools
SpecBoot == InitBoot /\ [][NextBoot]_vars

\* a step of a handle call, a CheshireCat() call made while no message is
\* handled, or a stage of its __init__, which finds the tools as they were
NextSessions ==
    \/ \E m \in Messages : Ingress(m)
    \/ ReadHook
    \/ Segment
    \/ Scan
    \/ Cut
    \/ Recall
    \/ Agent
    \/ Persist
    \/ Send
    \/ History
    \/ Exit
    \/ Construct
    \/ LoadPlugins(tools)
    \/ LoadNaturalLanguage
    \/ LoadMemory
    \/ BootEmbedTools
    \/ FinishBootstrap

\* the handling of messages in a process where CheshireCat() is called again
SpecSessions == Init /\ [][NextSessions]_vars

\* the episodic collection an earlier process left: entries of the two users
PersistedEpisodic ==
    << Point(1, ShortText, [source |-> DefaultUserId, when |-> 0]),
       Point(2, ShortText, [source |-> DefaultUserId, when |-> 0]),
       Point(3, ShortText, [source |-> "alice", when |-> 0]),
       Point(4, ShortText, [source |-> DefaultUserId, when |-> 0]),
       Point(5, QueryRewrite, [source |-> "alice", when |-> 0]),
       Point(6, ShortText, [source |-> DefaultUserId, when |-> 0]),
       Point(9, QueryRewrite, [source |-> DefaultUserId, when |-> 0]) >>

\* the declarative collection an earlier process left: remainders of long messages
PersistedDeclarative ==
    << Point(7, ShortText, [source |-> "", when |-> 0, content_type |-> "text/plain"]),
       Point(8, ShortText, [source |-> "", when |-> 0, content_type |-> "text/plain"]),
       Point(10, ShortText, [source |-> "", when |-> 0, content_type |-> "text/plain"]),
       Point(11, ShortText, [source |-> "", when |-> 0, content_type |-> "text/plain"]) >>

\* a new process on the memories an earlier one left: after __init__, the first
\* message, of either user, has reached the recall; the plugins' hooks of the
\* three tiers do any of the things TierHooks tells
InitRecall ==
    /\ episodic = PersistedEpisodic
    /\ declarative = PersistedDeclarative
    /\ tools = << ChatTool >>
    /\ procedural = embed_tools(tools, << >>, 12, 0).collection
    /\ next_id = 13
    /\ clock = 1
    /\ \E user_id \in UserIds :
          LET got == GetWorkingMemory(
                         [u \in UserIds |-> IF u = DefaultUserId THEN 1 ELSE 0],
                         << EmptyWM(DefaultUserId) >>, user_id)
          IN /\ wm_registry = got.registry
             /\ wm = [got.instances EXCEPT
                         ![got.id].user_message_json =
                             [text |-> ShortText, user_id |-> user_id]]
             /\ lookups = {[given |-> user_id, id |-> got.id]}
             /\ call = [IdleCall EXCEPT !.pc = "recall", !.user_id = user_id,
                                        !.given = user_id, !.wmid = got.id,
                                        !.episodic0 = PersistedEpisodic,
                                        !.declarative0 = PersistedDeclarative,
                                        !.read_text = ShortText,
                                        !.stages = << "ingress", "read", "segment" >>]
    /\ ncalls = 1
    /\ sync = [NoSync EXCEPT !.runs = 1, !.tools = tools, !.adds = 1]
    /\ hooks \in [{"episodic", "declarative", "procedural"} -> TierHooks]
    /\ loop = << >>
    /\ post = NoPost
    /\ posted = << >>
    /\ received = << >>
    /\ boot = ReadyBoot

\* the recall of the message
NextRecall == Recall

\* the recall of memories under the hooks of plugins
SpecRecall == InitRecall /\ [][NextRecall]_vars

\* ------------------------------------------------------------ claims

\* the call has ended
Done == call.pc = "done"

\* the call has ended and returned a chat output
ReturnedChat ==
    /\ Done
    /\ call.outcome.kind = "return"
    /\ call.outcome.output.type = "chat"

\* the greatest of a non-empty set of integers
Max(S) == CHOOSE x \in S : \A y \in S : y <= x

\* C1: when a handle call returns a chat output, the conversation history of
\* its user is the history before the call followed by one Human turn and then
\* one AI turn; the earlier turns are as they were.
C1_HistoryAppended ==
    ReturnedChat =>
        LET h == CallWM.history
            n == Len(call.hist0)
        IN /\ Len(h) = n + 2
           /\ SubSeq(h, 1, n) = call.hist0
           /\ h[n + 1].who = "Human"
           /\ h[n + 2].who = "AI"

\* C1, its case: a call recovered from a parse failure returns, for a user whose
\* history held an earlier exchange
C1_Witness ==
    /\ ReturnedChat
    /\ Len(call.hist0) >= 2
    /\ call.agent_error # << >>

\* C2: when a query of the vector store raises during the recall, handle
\* returns the output of type "error" and name "VectorMemoryError", and the
\* agent is not invoked.
C2_QueryFailureReturnsError ==
    (Done /\ call.failed.type = "QueryFailure") =>
        /\ call.outcome = Return(VectorMemoryErrorOutput)
        /\ ~call.agent_invoked

\* C3: for every raw text r, when the agent fails with the parse failure of r
\* and no hook fails, handle returns a chat output whose content is r, whose
\* intermediate steps are empty and whose input is the message text.
C3_ParseFailureGivesRawText ==
    \A r \in RawTexts :
        (Done /\ call.agent_error = ParseFailure(r) /\ call.failed = NoFailure) =>
            /\ ReturnedChat
            /\ call.outcome.output.content = r
            /\ call.outcome.output.why.intermediate_steps = << >>
            /\ call.outcome.output.why.input = MessageText(CallWM)

\* the whitespace places of a text among the indexes lo..MAX_TEXT_INPUT
SpacesFrom(text, lo) == {i \in lo..MAX_TEXT_INPUT : IsSpaceAt(text, i)}

\* the text read was longer than the threshold and has just been segmented
Segmented == call.pc = "recall" /\ TextLen(call.read_text) > MAX_TEXT_INPUT

\* the working text is the text read up to cut, and what went to the
\* declarative memory is the text read from cut on
CutAt(cut) ==
    /\ MessageText(CallWM) = TextPrefix(call.read_text, cut)
    /\ Len(declarative) > 0
    /\ declarative[Len(declarative)].page_content = TextSuffix(call.read_text, cut)

\* C4, as stated: a text longer than the threshold is cut at its last whitespace
\* at or before the threshold, and at the threshold when it has none there.
C4_CutAtLastWhitespace ==
    Segmented =>
        CutAt(IF SpacesFrom(call.read_text, 0) = {} THEN MAX_TEXT_INPUT
              ELSE Max(SpacesFrom(call.read_text, 0)))

\* C4, amended: a text longer than the threshold is cut at its last whitespace
\* among the indexes 1 to the threshold, and at the threshold when it has none
\* there: a whitespace at index 0 is no place for a cut.
C4_CutAtLastWhitespaceAfterStart ==
    Segmented =>
        CutAt(IF SpacesFrom(call.read_text, 1) = {} THEN MAX_TEXT_INPUT
              ELSE Max(SpacesFrom(call.read_text, 1)))

\* C4, its case: a text whose only whitespace up to the threshold is its first
\* character has been cut at the threshold
C4_Witness ==
    /\ Segmented
    /\ SpacesFrom(call.read_text, 0) = {0}
    /\ CutAt(MAX_TEXT_INPUT)

\* the descriptions of the points of a collection
DescriptionSet(points) == Range(PageContents(points))

\* the descriptions of the tools of a list
LiveSet(ts) == Range(Descriptions(ts))

\* C5: after an embed_tools run the descriptions persisted in the procedural
\* collection are those of the live tools: the points whose description a tool
\* has are kept as they were, the other points are deleted, and the points added
\* carry the live descriptions that were missing.
C5_SyncReconciles ==
    sync.runs >= 1 =>
        /\ DescriptionSet(procedural) = LiveSet(sync.tools)
        /\ \A p \in Range(sync.before) :
              p \in Range(procedural) <=> p.page_content \in LiveSet(sync.tools)
        /\ \A p \in Range(procedural) \ Range(sync.before) :
              p.page_content \in LiveSet(sync.tools) \ DescriptionSet(sync.before)
        /\ Range(sync.deleted) =
              {p.id : p \in {q \in Range(sync.before) :
                                q.page_content \notin LiveSet(sync.tools)}}

\* C5, its case: a run kept a point, deleted another and added a third
C5_Witness ==
    /\ sync.runs >= 1
    /\ sync.adds = 1
    /\ sync.deletes = 1
    /\ Range(sync.before) \cap Range(procedural) # {}

\* C6: an embed_tools run that follows another with the tools unchanged makes
\* no add_texts call and no delete call, and leaves the collection as it was.
C6_SecondSyncDoesNothing ==
    (sync.runs >= 2 /\ sync.tools = sync.prev_tools) =>
        /\ sync.adds = 0
        /\ sync.deletes = 0
        /\ procedural = sync.before

\* C6, its case: a second run on the same two tools, after a first run that
\* changed the collection
C6_Witness ==
    /\ sync.runs >= 2
    /\ sync.tools = sync.prev_tools
    /\ Len(sync.tools) = 2
    /\ procedural = sync.before
    /\ \E p \in Range(procedural) : p.id >= 4

\* C7: no two points of the procedural collection have the same description,
\* whatever the embed_tools runs made, two tools of one description included.
C7_NoDuplicateDescriptions ==
    \A i, j \in 1..Len(procedural) :
        procedural[i].page_content = procedural[j].page_content => i = j

\* C8: two lookups with the same user_id return the same WorkingMemory, two
\* with different user_ids return different ones, and a message without
\* user_id gets the instance of the default user, the one load_memory made.
C8_LookupIsGetOrCreate ==
    /\ \A a, b \in lookups : a.given = b.given => a.id = b.id
    /\ \A a, b \in lookups :
          (a.given # NoUserId /\ b.given # NoUserId /\ a.given # b.given) => a.id # b.id
    /\ \A a \in lookups :
          /\ wm[a.id].user_id = (IF a.given = NoUserId THEN DefaultUserId ELSE a.given)
          /\ a.given = NoUserId => a.id = 1
    /\ call.pc # "idle" => [given |-> call.given, id |-> call.wmid] \in lookups

\* C8, its case: two calls for one user id that is not the default, and one instance
C8_Witness ==
    /\ ncalls = 2
    /\ call.pc = "read"
    /\ lookups = {[given |-> "alice", id |-> 2]}

\* C9: a hook that raises during handle is not swallowed or translated: handle
\* raises the failure of the hook.
C9_HookFailurePropagates ==
    (Done /\ call.failed.type = "HookFailure") => call.outcome = Raise(call.failed)

\* C10: an agent failure that is no parse failure is raised by handle, which
\* returns nothing; a parse failure is recovered, and handle returns a chat
\* output unless something else fails.
C10_OtherAgentFailureIsFatal ==
    call.agent_error # << >> =>
        IF Contains(call.agent_error, ParsePrefix)
        THEN /\ call.cat_message # Unset
             /\ call.outcome # Raise(AgentFailure(call.agent_error))
             /\ (Done /\ call.failed = NoFailure) => ReturnedChat
        ELSE /\ Done
             /\ call.outcome = Raise(AgentFailure(call.agent_error))

\* C10, its case: the agent failed with a message that is no parse failure
C10_Witness ==
    /\ Done
    /\ call.agent_error = OtherFailure
    /\ call.outcome.kind = "raise"

\* the episodic memory is as it was when the call began, and one entry more
OneEpisodicEntryAdded ==
    /\ Len(episodic) = Len(call.episodic0) + 1
    /\ SubSeq(episodic, 1, Len(call.episodic0)) = call.episodic0

\* the entry the call added carries the user id of the request and a time of
\* creation, and nothing else
TaggedWithUserAndTime(p) ==
    /\ DOMAIN p.metadata = {"source", "when"}
    /\ p.metadata.source = call.user_id
    /\ p.metadata.when \in 0..(clock - 1)

\* C11, as stated: a handle call that returns a chat output, one recovered from
\* a parse failure included, has added exactly one entry to the episodic
\* memory: its text is the whole text of the message, as the
\* before_cat_reads_message hook returned it, and its metadata carry the user
\* id of the request and a time of creation.
C11_EpisodicEntryOfOriginalText ==
    ReturnedChat =>
        /\ OneEpisodicEntryAdded
        /\ TaggedWithUserAndTime(episodic[Len(episodic)])
        /\ episodic[Len(episodic)].page_content = call.read_text

\* C11, amended: the text of the entry is the working text of the message:
\* the text the hook returned when it is at most MAX_TEXT_INPUT long, and the
\* part of it before the cut of the segmentation when it is longer.
C11_EpisodicEntryOfWorkingText ==
    ReturnedChat =>
        /\ OneEpisodicEntryAdded
        /\ TaggedWithUserAndTime(episodic[Len(episodic)])
        /\ episodic[Len(episodic)].page_content =
              (IF TextLen(call.read_text) > MAX_TEXT_INPUT
               THEN TextPrefix(call.read_text, call.index)
               ELSE call.read_text)

\* C11, its case: a long message, of a user other than the default one, whose
\* call recovered from a parse failure; the episodic memory held an entry
\* before, and the entry added holds the part of the text before the cut
C11_Witness ==
    /\ ReturnedChat
    /\ call.agent_error # << >>
    /\ call.user_id # DefaultUserId
    /\ TextLen(call.read_text) > MAX_TEXT_INPUT
    /\ Len(call.episodic0) >= 1
    /\ Len(episodic) = Len(call.episodic0) + 1
    /\ TextLen(episodic[Len(episodic)].page_content) < TextLen(call.read_text)

\* the user a message is of: the one it names, the default one if it names none
UserOf(given) == IF given = NoUserId THEN DefaultUserId ELSE given

PostTarget(working_memory) ==
    IF working_memory = 0 THEN wm_registry[DefaultUserId] ELSE working_memory

\* C13: a send_ws_message call with a kind outside MSG_TYPES raises and
\* schedules nothing, and no queue changes; a call with a kind of MSG_TYPES
\* schedules one message, for the queue of its working memory; the only
\* messages that reach a queue are those scheduled, each on the queue it was
\* scheduled for; a queue changes otherwise only by a consumer taking its head.
C13_UnknownKindRejected ==
    [][/\ post'.count # post.count =>
            /\ wm' = wm
            /\ IF post'.msg_type \in {"notification", "chat", "error", "chat_token"}
               THEN /\ post'.outcome.kind = "return"
                    /\ Len(loop') = Len(loop) + 1
                    /\ SubSeq(loop', 1, Len(loop)) = loop
                    /\ loop'[Len(loop')].wmid = PostTarget(post'.working_memory)
                    /\ loop'[Len(loop')].message.type = post'.msg_type
               ELSE /\ post'.outcome.kind = "raise"
                    /\ loop' = loop
       /\ post'.count = post.count =>
            \A i \in DOMAIN wm :
               \/ wm'[i].ws_messages = wm[i].ws_messages
               \/ /\ loop # << >>
                  /\ Head(loop).wmid = i
                  /\ loop' = Tail(loop)
                  /\ wm'[i].ws_messages = Append(wm[i].ws_messages, Head(loop).message)
               \/ /\ wm[i].ws_messages # << >>
                  /\ loop' = loop
                  /\ wm'[i].ws_messages = Tail(wm[i].ws_messages)
      ]_vars

\* C13, its case: a first call, with a kind of MSG_TYPES and a working memory
\* that is not the default one, had its message put on that queue; a second
\* call, with another kind, raised, and every queue is as it was
C13_Witness ==
    /\ post.count = 2
    /\ post.msg_type = "warning"
    /\ post.outcome = Raise(ValueError("warning"))
    /\ loop = << >>
    /\ wm[1].ws_messages = << >>
    /\ Len(wm[2].ws_messages) = 1

\* the call has ended in its recall, where the embedder or a query of the
\* vector store raised
RecallFailed ==
    /\ Done
    /\ call.failed.type \in {"QueryFailure", "EmbedFailure"}

\* the call has left no trace: the history of its user and the episodic memory
\* are as they were when it began, and the recall was tried once
NothingPersisted ==
    /\ CallWM.history = call.hist0
    /\ episodic = call.episodic0
    /\ Cardinality({i \in 1..Len(call.stages) : call.stages[i] = "recall"}) = 1

C15_SegmentationLossless ==
    call.pc \in {"recall", "agent"} =>
        LET text == call.read_text
            kept == MessageText(CallWM)
            n == Len(call.declarative0)
        IN /\ TextLen(kept) <= MAX_TEXT_INPUT
           /\ SubSeq(declarative, 1, n) = call.declarative0
           /\ IF TextLen(text) > MAX_TEXT_INPUT
              THEN /\ Len(declarative) = n + 1
                   /\ TextConcat(kept, declarative[n + 1].page_content) = text
                   /\ declarative[n + 1].metadata.source = ""
                   /\ declarative[n + 1].metadata.content_type = "text/plain"
              ELSE /\ kept = text
                   /\ Len(declarative) = n

\* C15, its case: a text of two characters more than the threshold was cut at
\* a whitespace in its middle, and the remainder holds whitespace too
C15_Witness ==
    /\ call.pc = "recall"
    /\ TextLen(call.read_text) = MAX_TEXT_INPUT + 2
    /\ TextLen(MessageText(CallWM)) = 250
    /\ Len(declarative) = 1
    /\ declarative[1].page_content.ws = {0, MAX_TEXT_INPUT + 1 - 250}

\* the slot of a tier in a working memory
Slot(w, tier) ==
    CASE tier = "episodic" -> w.episodic_memories
      [] tier = "declarative" -> w.declarative_memories
      [] tier = "procedural" -> w.procedural_memories

\* the points of a collection a config asks for: those its filter lets through
\* and whose score is at least its threshold
Qualifying(collection, config) ==
    {p \in Range(collection) :
        /\ config.metadata # NoMetadata => p.metadata.source = config.metadata.source
        /\ Score(config.embedding, p) >= config.threshold}

\* the recall of the call has come to its end
Recalled == call.pc = "agent"

\* C16: after a recall, for each of the three tiers, the config the hook of
\* the tier returned is the one its collection was queried with, and the slot
\* of the tier holds the result of that query and of no other: points of that
\* collection that the config asks for, with their scores, at most k of them,
\* by descending score, none left out for a worse one.
C16_SlotsOfOwnTier ==
    Recalled =>
        \A i \in 1..3 :
            LET tier == << "episodic", "declarative", "procedural" >>[i]
                config == call.queried[i]
                slot == Slot(CallWM, tier)
                asked == Qualifying(Collection(tier), config)
            IN /\ config =
                     QueryConfig(
                         HookReturns(hooks[tier],
                             DefaultRecallConfig(tier, RecallQueryEmbedding, call.user_id)),
                         EmbeddingAfterHooks(hooks, CallWM.recall_query))
               /\ slot = RecallMemoriesFromEmbedding(Collection(tier), config)
               /\ Len(slot) <= config.k
               /\ \A j \in 1..Len(slot) :
                     /\ slot[j].point \in asked
                     /\ slot[j].score = Score(config.embedding, slot[j].point)
                     /\ slot[j].score >= config.threshold
                     /\ \A l \in 1..(j - 1) :
                           /\ slot[l].score >= slot[j].score
                           /\ slot[l].point # slot[j].point
               /\ \A p \in asked :
                     \/ \E j \in 1..Len(slot) : slot[j].point = p
                     \/ /\ Len(slot) = config.k
                        /\ \A j \in 1..Len(slot) :
                              slot[j].score >= Score(config.embedding, p)

\* C16, its case: the hooks return three different configs; the episodic slot
\* holds k entries of more that qualify, not in the order of the collection,
\* and the two other slots hold the entries of their own collections
C16_Witness ==
    /\ Recalled
    /\ hooks = [episodic |-> "keep", declarative |-> "threshold", procedural |-> "k"]
    /\ Len(CallWM.episodic_memories) = DEFAULT_K
    /\ Cardinality(Qualifying(episodic, call.queried[1])) > DEFAULT_K
    /\ CallWM.episodic_memories[1].point.id > CallWM.episodic_memories[2].point.id
    /\ Len(CallWM.declarative_memories) = 2
    /\ Len(CallWM.procedural_memories) = 1

\* the hooks where only the hook of one tier is that of the plugins, and the
\* two others return the config they are given
OwnHookOnly(tier) == [DefaultHooks EXCEPT ![tier] = hooks[tier]]

\* C17: the config a tier is queried with is the one its own hook makes of its
\* own default config, whatever the hooks of the two other tiers do, a change
\* in place of the vector they were given included.
C17_TierHooksIndependent ==
    Recalled =>
        \A i \in 1..3 :
            call.queried[i] =
                QueryConfigs(OwnHookOnly(HookTiers[i]), CallWM.recall_query, call.user_id)[i]

\* C18: without hooks of plugins the episodic collection is queried with the
\* filter of the user of the request and the two other collections with none;
\* the entry a call adds to the episodic memory is tagged with the user its
\* message is of; and the episodic slot of a user holds entries of that user
\* only.
C18_EpisodicRecallIsolated ==
    /\ (hooks = DefaultHooks /\ call.queried # Unset) =>
          /\ call.queried[1].metadata = [source |-> UserOf(call.given)]
          /\ call.queried[2].metadata = NoMetadata
          /\ call.queried[3].metadata = NoMetadata
    /\ (call.pc # "idle" /\ Len(episodic) > Len(call.episodic0)) =>
          episodic[Len(episodic)].metadata.source = UserOf(call.given)
    /\ hooks = DefaultHooks =>
          \A i \in DOMAIN wm : \A j \in 1..Len(wm[i].episodic_memories) :
              wm[i].episodic_memories[j].point.metadata.source = wm[i].user_id

\* C18, its case: a recall for a user while the episodic memory holds an entry
\* that a call of another user added and that is as close to the query as the
\* threshold asks: the slot of the user does not hold it
C18_Witness ==
    /\ Recalled
    /\ hooks = DefaultHooks
    /\ Len(episodic) = 1
    /\ episodic[1].metadata.source # call.user_id
    /\ Score(call.queried[1].embedding, episodic[1]) >= DEFAULT_THRESHOLD
    /\ CallWM.episodic_memories = << >>

\* the ids of the points a run found in the collection whose description no
\* live tool has
StaleIds == {p.id : p \in {q \in Range(sync.before) :
                              q.page_content \notin LiveSet(sync.tools)}}

\* C19: an embed_tools run makes at most one delete call; it makes one when
\* some point it found has a description no live tool has, and the call
\* carries the ids of all those points, each once, and no other id; it makes
\* none when there is no such point, and the points it found are all kept.
C19_OneBatchedDelete ==
    sync.runs >= 1 =>
        /\ sync.deletes <= 1
        /\ sync.deletes = 1 <=> StaleIds # {}
        /\ Range(sync.deleted) = StaleIds
        /\ Len(sync.deleted) = Cardinality(StaleIds)
        /\ StaleIds = {} => \A p \in Range(sync.before) : p \in Range(procedural)
        /\ \A p \in Range(procedural) : p.id \notin StaleIds

\* C19, its case: a run that added a tool found two points to delete and made
\* one call for the two
C19_Witness ==
    /\ sync.runs >= 1
    /\ sync.adds >= 1
    /\ Len(sync.deleted) = 2
    /\ sync.deletes = 1
    /\ Len(procedural) = Len(sync.before) + sync.adds - 2

\* the stages of a handle call, in the order of the lines of __call__
PipelineOrder ==
    << "ingress", "read", "segment", "recall", "agent", "persist", "output", "send",
       "history", "return" >>

\* the sequence a is the beginning of the sequence b
IsPrefix(a, b) == Len(a) <= Len(b) /\ SubSeq(b, 1, Len(a)) = a

\* C20: the stages a handle call has gone through are a beginning of the
\* pipeline: each at most once, in the one order pre-read hook, segmentation,
\* recall, agent, episodic persistence, output, pre-send hook, history, return.
\* A step of a call only adds stages to those passed; a call that returns a
\* chat output has gone through them all; and once a call has ended, by a
\* return or by a failure, no stage of it runs.
C20_PipelineLinear ==
    [][/\ IsPrefix(call'.stages, PipelineOrder)
       /\ call.pc \notin {"idle", "done"} =>
             /\ IsPrefix(call.stages, call'.stages)
             /\ call'.pc # "idle"
       /\ call.pc = "done" => call' = IdleCall
       /\ (call'.pc = "done" /\ call'.outcome.kind = "return") =>
             call'.stages = PipelineOrder
       /\ (call'.pc = "done" /\ call'.outcome.kind = "raise") =>
             Len(call'.stages) < Len(PipelineOrder)
      ]_vars

\* C20, its case: a call went as far as the before_cat_sends_message hook, which
\* raised; the history update did not run
C20_Witness ==
    /\ Done
    /\ call.outcome = Raise(HookFailure("before_cat_sends_message"))
    /\ call.stages = SubSeq(PipelineOrder, 1, 8)
    /\ CallWM.history = call.hist0


\* the recall of the call has run, to its end or to a failure
RecallRan == "recall" \in Range(call.stages)

\* C21: a recall whose cat_recall_query hook returned a text calls embed_query
\* exactly once, with that text; once the embedding is made, the text the hook
\* returned is the recall_query of the working memory; and the three default
\* configs, once built, hold one and the same list, the vector of that call.
C21_QueryEmbeddedOnce ==
    (RecallRan /\ WentPast(call.failed, HookFailure("cat_recall_query"))) =>
        /\ call.embed_calls = << call.recall_query >>
        /\ WentPast(call.failed, EmbedFailure) =>
              /\ CallWM.recall_query = call.recall_query
              /\ call.recall_query_embedding = EmbedQuery(call.recall_query)
        /\ WentPast(call.failed, HookFailure("before_cat_recalls_memories")) =>
              /\ Len(call.defaults) = Len(Tiers)
              /\ \A i \in 1..Len(call.defaults) :
                    /\ call.defaults[i].embedding = RecallQueryEmbedding
                    /\ QueryConfig(call.defaults[i], call.recall_query_embedding).embedding
                          = EmbedQuery(call.recall_query)

\* C21, its case: a recall that ran to its end on a query the hook rewrote: the
\* one embedding is of the rewritten text, not of the text of the message, and
\* the rewritten text is the one the working memory holds
C21_Witness ==
    /\ RecallRan
    /\ call.failed = NoFailure
    /\ call.recall_query = QueryRewrite
    /\ call.recall_query # MessageText(CallWM)
    /\ call.embed_calls = << QueryRewrite >>
    /\ CallWM.recall_query = QueryRewrite
    /\ call.defaults # Unset


\* the messages of a sequence of posts that are for the working memory at place
\* wmid of wm, in their order
PostedFor(wmid) ==
    LET own == SelectSeq(posted, LAMBDA p : PostTarget(p.working_memory) = wmid)
    IN [i \in 1..Len(own) |-> own[i].message]

\* the messages of the tasks waiting in the loop that are for wmid, in their order
ScheduledFor(wmid) ==
    LET own == SelectSeq(loop, LAMBDA t : t.wmid = wmid)
    IN [i \in 1..Len(own) |-> own[i].message]

\* the messages taken from the queue of wmid, in their order
ReceivedFrom(wmid) ==
    LET own == SelectSeq(received, LAMBDA r : r.wmid = wmid)
    IN [i \in 1..Len(own) |-> own[i].message]

\* C22: for every working memory, the messages posted for it (for the default
\* user's when no working memory is passed), in the order of the posts, are
\* those taken from its queue, then those on its queue, then those the loop has
\* still to put: a message is on no other queue and none overtakes another.
\* A post with a kind of MSG_TYPES returns without waiting for its put.
C22_NotificationsOrderedPerUser ==
    /\ \A wmid \in DOMAIN wm :
          PostedFor(wmid) =
              ReceivedFrom(wmid) \o wm[wmid].ws_messages \o ScheduledFor(wmid)
    /\ (post.count > 0 /\ post.msg_type \in MSG_TYPES) =>
          /\ post.outcome = Return(None)
          /\ posted[Len(posted)].working_memory = post.working_memory

\* C22, its case: two posts of different messages, the first for no working
\* memory and the second for alice's, both returned before the loop ran; the
\* consumers then took each message from the queue of its user
C22_Witness ==
    /\ Len(posted) = 2
    /\ posted[1].working_memory = 0
    /\ posted[2].working_memory = 2
    /\ posted[1].message # posted[2].message
    /\ loop = << >>
    /\ ReceivedFrom(wm_registry[DefaultUserId]) = << posted[1].message >>
    /\ ReceivedFrom(2) = << posted[2].message >>


\* the places of a stage in the log of an __init__
PlacesOf(stage, log) == {i \in 1..Len(log) : log[i] = stage}

\* C23: an __init__ that has returned ran embed_tools exactly once, after
\* load_memory and before the after_cat_bootstrap hook; before its embed_tools
\* stage no run was made, and since then every plugin-sync-finished signal has
\* made one more run.
C23_ToolSyncOncePerBootstrap ==
    /\ boot.pc = "ready" =>
          /\ Cardinality(PlacesOf("embed_tools", boot.log)) = 1
          /\ \A i \in PlacesOf("embed_tools", boot.log) :
                /\ \E j \in PlacesOf("load_memory", boot.log) : j < i
                /\ \E j \in PlacesOf("after_cat_bootstrap", boot.log) : i < j
    /\ boot.pc # "none" =>
          sync.runs = boot.runs0 + Cardinality(PlacesOf("embed_tools", boot.log))
                          + boot.signals
    /\ boot.signals > 0 => boot.callback = "embed_tools"

\* C23, its case: a bootstrap has returned, on a collection an earlier process
\* left and with tools of the plugins; a plugin sync finished afterwards, with
\* other tools, and embed_tools ran a second time, on those tools
C23_Witness ==
    /\ boot.pc = "ready"
    /\ boot.log = BootOrder
    /\ boot.signals = 1
    /\ sync.runs = 2
    /\ sync.tools = tools
    /\ sync.prev_tools # tools
    /\ sync.before # << >>
    /\ wm_registry[DefaultUserId] # 0


\* C24, as stated: every CheshireCat() call returns the same instance, and
\* when a call has returned, every working memory made before, with the
\* conversation history it holds, is still the one a lookup for its user
\* returns.
C24_SingletonKeepsSessions ==
    /\ \A i \in 1..Len(boot.returned) : boot.returned[i] = boot.returned[1]
    /\ boot.pc = "ready" =>
          \A i \in DOMAIN wm :
             GetWorkingMemory(wm_registry, wm, wm[i].user_id).id = i

=============================================================================
